---- MODULE Spec2Model ----
(***************************************************************************)
(* The two ResNet-50 notebooks as a state machine.                         *)
(*                                                                         *)
(*   "training"  is src/ResNet-implementation.ipynb                        *)
(*   "overview"  is src/unnamed/part_000                                   *)
(*                                                                         *)
(* A notebook is a Python kernel (a namespace of bound names) and a list   *)
(* of code cells.  The function bodies of the notebooks are transcribed    *)
(* statement by statement into a small intermediate form, which an         *)
(* interpreter runs with Python's name-binding rules and the layer         *)
(* library's shape rules, building the layer graph node by node.           *)
(***************************************************************************)
EXTENDS Integers, Sequences, FiniteSets, TLC

VARIABLES
    nb,           \* the notebook the kernel belongs to
    fmt,          \* the backend's image data format, K.image_data_format()
    defined,      \* the imported names and function names bound in the kernel
    ints,         \* the integer names of the kernel, 0 for a name not bound
    x_train,      \* the per-sample shape of x_train, <<>> while x_train is not bound
    input_shape,  \* the value of the name input_shape, <<>> while it is not bound
    model,        \* the value of the name model
    fits,         \* the calls of model.fit made so far, with what they printed
    raised,       \* for each code cell, what its last execution raised
    pc,           \* the next cell of a run in document order
    manual,       \* the number of executions made by hand, outside document order
    probe         \* the last call made by hand to one of the notebook's functions

vars == <<nb, fmt, defined, ints, x_train, input_shape, model, fits, raised, pc, manual, probe>>

kernel == <<fmt, defined, ints, x_train, input_shape, model, fits>>

(***************************************************************************)
(* Bounds of the model.                                                    *)
(***************************************************************************)
MaxDim == 3
MaxStride == 2
MaxManual == 1

(***************************************************************************)
(* Tensor shapes.  A shape is a sequence of dimensions without the batch   *)
(* axis; <<>> stands for "no tensor".  The layers are built without a      *)
(* data_format argument, so the position of the channel axis follows the   *)
(* backend's image data format.                                            *)
(***************************************************************************)
HAxis(df) == IF df = "channels_first" THEN 2 ELSE 1

WAxis(df) == IF df = "channels_first" THEN 3 ELSE 2

CAxis(df) == IF df = "channels_first" THEN 1 ELSE 3

Shape3(df, h, w, c) == IF df = "channels_first" THEN <<c, h, w>> ELSE <<h, w, c>>

\* Output length of a convolution or pooling window along one axis.
conv_output_length(n, k, pad, s) ==
    IF pad = "same" THEN (n + s - 1) \div s ELSE (n - k + s) \div s

Positive(shape) == shape # <<>> /\ \A i \in 1..Len(shape) : shape[i] >= 1

\* A sliding-window layer (Conv2D, MaxPooling2D, AveragePooling2D): the
\* window moves over height and width, the channel count becomes `ch`.
Windowed(df, x, k, pad, s, ch) ==
    IF Len(x) # 3 \/ s < 1 THEN <<>>
    ELSE LET out == Shape3(df, conv_output_length(x[HAxis(df)], k, pad, s),
                               conv_output_length(x[WAxis(df)], k, pad, s), ch)
         IN  IF Positive(out) THEN out ELSE <<>>

\* The shape a layer gives for its input shapes; <<>> when the layer rejects them.
OutShape(df, ly, ins, inputShape) ==
    CASE ly.kind = "Input" -> IF Positive(inputShape) THEN inputShape ELSE <<>>
      [] ly.kind = "ZeroPadding2D" ->
            IF Len(ins) = 1 /\ Len(ins[1]) = 3
            THEN Shape3(df, ins[1][HAxis(df)] + 2 * ly.k, ins[1][WAxis(df)] + 2 * ly.k,
                            ins[1][CAxis(df)])
            ELSE <<>>
      [] ly.kind = "Conv2D" ->
            IF Len(ins) = 1 THEN Windowed(df, ins[1], ly.k, ly.pad, ly.s, ly.units) ELSE <<>>
      [] ly.kind \in {"MaxPooling2D", "AveragePooling2D"} ->
            IF Len(ins) = 1 /\ Len(ins[1]) = 3
            THEN Windowed(df, ins[1], ly.k, ly.pad, ly.s, ins[1][CAxis(df)])
            ELSE <<>>
      [] ly.kind \in {"BatchNormalization", "Activation"} ->
            IF Len(ins) = 1 THEN ins[1] ELSE <<>>
      [] ly.kind = "Add" ->
            IF Len(ins) = 2 /\ ins[1] = ins[2] THEN ins[1] ELSE <<>>
      [] ly.kind = "Flatten" ->
            IF Len(ins) = 1 /\ Len(ins[1]) = 3
            THEN <<ins[1][1] * ins[1][2] * ins[1][3]>> ELSE <<>>
      [] ly.kind = "Dense" ->
            IF Len(ins) = 1 /\ Len(ins[1]) = 1 /\ ly.units >= 1 THEN <<ly.units>> ELSE <<>>
      [] OTHER -> <<>>

(***************************************************************************)
(* Statements of the function bodies.                                      *)
(***************************************************************************)
LocalNames == {"X", "X_input", "X_shortcut", "X_in"}

\* A layer object: the constructor's arguments that decide the graph.
LayerCfg(kind, units, k, s, pad, axis, act, name) ==
    [kind |-> kind, units |-> units, k |-> k, s |-> s, pad |-> pad, axis |-> axis,
     act |-> act, name |-> name]

\* tgt = <layer>(args)
Layer(tgt, cfg, args) == [op |-> "layer", tgt |-> tgt, args |-> args, layer |-> cfg]

\* tgt = Input(input_shape)
Input(tgt) == Layer(tgt, LayerCfg("Input", 0, 0, 0, "", 0, "", ""), <<>>)

\* tgt = ZeroPadding2D((p, p))(arg)
ZeroPadding2D(tgt, p, arg) ==
    Layer(tgt, LayerCfg("ZeroPadding2D", 0, p, 0, "", 0, "", ""), <<arg>>)

\* tgt = Conv2D(filters, (k, k), strides = (s, s), padding = pad, name = name)(arg)
Conv2D(tgt, filters, k, s, pad, name, arg) ==
    Layer(tgt, LayerCfg("Conv2D", filters, k, s, pad, 0, "", name), <<arg>>)

\* tgt = BatchNormalization(axis = axis, name = name)(arg)
BatchNormalization(tgt, axis, name, arg) ==
    Layer(tgt, LayerCfg("BatchNormalization", 0, 0, 0, "", axis, "", name), <<arg>>)

\* tgt = Activation(act)(arg)
Activation(tgt, act, arg) ==
    Layer(tgt, LayerCfg("Activation", 0, 0, 0, "", 0, act, ""), <<arg>>)

\* tgt = MaxPooling2D((pool, pool), strides = (s, s))(arg)    (padding defaults to valid)
MaxPooling2D(tgt, pool, s, arg) ==
    Layer(tgt, LayerCfg("MaxPooling2D", 0, pool, s, "valid", 0, "", ""), <<arg>>)

\* tgt = AveragePooling2D(pool_size = (pool, pool), padding = pad)(arg)
\* (strides default to the pool size)
AveragePooling2D(tgt, pool, pad, arg) ==
    Layer(tgt, LayerCfg("AveragePooling2D", 0, pool, pool, pad, 0, "", ""), <<arg>>)

\* tgt = Add()([a, b])
Add(tgt, a, b) == Layer(tgt, LayerCfg("Add", 0, 0, 0, "", 0, "", ""), <<a, b>>)

\* tgt = Flatten()(arg)
Flatten(tgt, arg) == Layer(tgt, LayerCfg("Flatten", 0, 0, 0, "", 0, "", ""), <<arg>>)

\* tgt = Dense(units, activation = act, name = name)(arg)
Dense(tgt, units, act, name, arg) ==
    Layer(tgt, LayerCfg("Dense", units, 0, 0, "", 0, act, name), <<arg>>)

\* tgt = src
Assign(tgt, src) == [op |-> "assign", tgt |-> tgt, src |-> src]

\* tgt = fn(arg, f, filters, stage = stage, block = block, s = s)
Call(tgt, fn, arg, f, filters, stage, block, s) ==
    [op |-> "call", tgt |-> tgt, fn |-> fn, arg |-> arg, f |-> f, filters |-> filters,
     stage |-> stage, block |-> block, s |-> s]

\* return src
Return(src) == [op |-> "return", src |-> src]

\* model = Model(inputs = inputs, outputs = outputs, name = 'ResNet50'); return model
ReturnModel(inputs, outputs) == [op |-> "model", inputs |-> inputs, outputs |-> outputs]

\* The library names a layer statement looks up in the kernel's namespace.
NamesUsed(ly) ==
    IF ly.kind \in {"Conv2D", "Dense"} THEN {ly.kind, "glorot_uniform"} ELSE {ly.kind}

(***************************************************************************)
(* The training notebook's functions.                                      *)
(***************************************************************************)
conv_name_base(stage, block) == "res" \o ToString(stage) \o block \o "_branch"

bn_name_base(stage, block) == "bn" \o ToString(stage) \o block \o "_branch"

\* residual_block with the middle convolution left at padding = 'valid'.
residual_block_ValidMiddle(f, filters, stage, block) ==
    LET F1 == filters[1]
        F2 == filters[2]
        F3 == filters[3]
        cnb == conv_name_base(stage, block)
        bnb == bn_name_base(stage, block)
    IN  << Assign("X_shortcut", "X"),
           Conv2D("X", F1, 1, 1, "valid", cnb \o "2a", "X"),
           BatchNormalization("X", 3, bnb \o "2a", "X"),
           Activation("X", "relu", "X"),
           Conv2D("X", F2, f, 1, "valid", cnb \o "2b", "X"),
           BatchNormalization("X", 3, bnb \o "2b", "X"),
           Activation("X", "relu", "X"),
           Conv2D("X", F3, 1, 1, "valid", cnb \o "2c", "X"),
           BatchNormalization("X", 3, bnb \o "2c", "X"),
           Add("X", "X", "X_shortcut"),
           Activation("X", "relu", "X"),
           Return("X") >>

residual_block(f, filters, stage, block) ==
    LET F1 == filters[1]
        F2 == filters[2]
        F3 == filters[3]
        cnb == conv_name_base(stage, block)
        bnb == bn_name_base(stage, block)
    IN  << Assign("X_shortcut", "X"),
           Conv2D("X", F1, 1, 1, "valid", cnb \o "2a", "X"),
           BatchNormalization("X", 3, bnb \o "2a", "X"),
           Activation("X", "relu", "X"),
           Conv2D("X", F2, f, 1, "same", cnb \o "2b", "X"),
           BatchNormalization("X", 3, bnb \o "2b", "X"),
           Activation("X", "relu", "X"),
           Conv2D("X", F3, 1, 1, "valid", cnb \o "2c", "X"),
           BatchNormalization("X", 3, bnb \o "2c", "X"),
           Add("X", "X", "X_shortcut"),
           Activation("X", "relu", "X"),
           Return("X") >>

\* convolutional_block with the stride left out of the shortcut convolution.
convolutional_block_UnstridedShortcut(f, filters, stage, block, s) ==
    LET F1 == filters[1]
        F2 == filters[2]
        F3 == filters[3]
        cnb == conv_name_base(stage, block)
        bnb == bn_name_base(stage, block)
    IN  << Assign("X_shortcut", "X"),
           Conv2D("X", F1, 1, s, "valid", cnb \o "2a", "X"),
           BatchNormalization("X", 3, bnb \o "2a", "X"),
           Activation("X", "relu", "X"),
           Conv2D("X", F2, f, 1, "same", cnb \o "2b", "X"),
           BatchNormalization("X", 3, bnb \o "2b", "X"),
           Activation("X", "relu", "X"),
           Conv2D("X", F3, 1, 1, "valid", cnb \o "2c", "X"),
           BatchNormalization("X", 3, bnb \o "2c", "X"),
           Conv2D("X_shortcut", F3, 1, 1, "valid", cnb \o "1", "X_shortcut"),
           BatchNormalization("X_shortcut", 3, bnb \o "1", "X_shortcut"),
           Add("X", "X", "X_shortcut"),
           Activation("X", "relu", "X"),
           Return("X") >>

\* convolutional_block adding the saved input itself, as residual_block does.
convolutional_block_IdentityShortcut(f, filters, stage, block, s) ==
    LET F1 == filters[1]
        F2 == filters[2]
        F3 == filters[3]
        cnb == conv_name_base(stage, block)
        bnb == bn_name_base(stage, block)
    IN  << Assign("X_shortcut", "X"),
           Conv2D("X", F1, 1, s, "valid", cnb \o "2a", "X"),
           BatchNormalization("X", 3, bnb \o "2a", "X"),
           Activation("X", "relu", "X"),
           Conv2D("X", F2, f, 1, "same", cnb \o "2b", "X"),
           BatchNormalization("X", 3, bnb \o "2b", "X"),
           Activation("X", "relu", "X"),
           Conv2D("X", F3, 1, 1, "valid", cnb \o "2c", "X"),
           BatchNormalization("X", 3, bnb \o "2c", "X"),
           Add("X", "X", "X_shortcut"),
           Activation("X", "relu", "X"),
           Return("X") >>

convolutional_block(f, filters, stage, block, s) ==
    LET F1 == filters[1]
        F2 == filters[2]
        F3 == filters[3]
        cnb == conv_name_base(stage, block)
        bnb == bn_name_base(stage, block)
    IN  << Assign("X_shortcut", "X"),
           Conv2D("X", F1, 1, s, "valid", cnb \o "2a", "X"),
           BatchNormalization("X", 3, bnb \o "2a", "X"),
           Activation("X", "relu", "X"),
           Conv2D("X", F2, f, 1, "same", cnb \o "2b", "X"),
           BatchNormalization("X", 3, bnb \o "2b", "X"),
           Activation("X", "relu", "X"),
           Conv2D("X", F3, 1, 1, "valid", cnb \o "2c", "X"),
           BatchNormalization("X", 3, bnb \o "2c", "X"),
           Conv2D("X_shortcut", F3, 1, s, "valid", cnb \o "1", "X_shortcut"),
           BatchNormalization("X_shortcut", 3, bnb \o "1", "X_shortcut"),
           Add("X", "X", "X_shortcut"),
           Activation("X", "relu", "X"),
           Return("X") >>

\* The stem with the strides left out of MaxPooling2D (they default to the pool size).
ResNet50Stem_PoolDefaultStrides ==
    << Input("X_input"),
       ZeroPadding2D("X", 3, "X_input"),
       Conv2D("X", 64, 7, 2, "valid", "conv1", "X"),
       BatchNormalization("X", 3, "bn_conv1", "X"),
       Activation("X", "relu", "X"),
       MaxPooling2D("X", 3, 3, "X") >>

\* The statements of ResNet50 up to the first block.
ResNet50Stem ==
    << Input("X_input"),
       ZeroPadding2D("X", 3, "X_input"),
       Conv2D("X", 64, 7, 2, "valid", "conv1", "X"),
       BatchNormalization("X", 3, "bn_conv1", "X"),
       Activation("X", "relu", "X"),
       MaxPooling2D("X", 3, 2, "X") >>

\* The head with a hidden fully connected layer in front of the classifier.
ResNet50Head_HiddenDense(classes) ==
    << AveragePooling2D("X", 2, "same", "X"),
       Flatten("X", "X"),
       Dense("X", 1000, "relu", "fc1000", "X"),
       Dense("X", classes, "softmax", "fc" \o ToString(classes), "X"),
       ReturnModel("X_input", "X") >>

\* The statements of ResNet50 after the last block.
ResNet50Head(classes) ==
    << AveragePooling2D("X", 2, "same", "X"),
       Flatten("X", "X"),
       Dense("X", classes, "softmax", "fc" \o ToString(classes), "X"),
       ReturnModel("X_input", "X") >>

\* residual_block takes no stride: its calls carry s = 0.
Stage2Blocks ==
    << Call("X", "convolutional_block", "X", 3, <<64, 64, 256>>, 2, "a", 1),
       Call("X", "residual_block", "X", 3, <<64, 64, 256>>, 2, "b", 0),
       Call("X", "residual_block", "X", 3, <<64, 64, 256>>, 2, "c", 0) >>

\* Stage 3 with the block letter 'b' passed to two calls.
Stage3Blocks_RepeatedBlock ==
    << Call("X", "convolutional_block", "X", 3, <<128, 128, 512>>, 3, "a", 2),
       Call("X", "residual_block", "X", 3, <<128, 128, 512>>, 3, "b", 0),
       Call("X", "residual_block", "X", 3, <<128, 128, 512>>, 3, "b", 0),
       Call("X", "residual_block", "X", 3, <<128, 128, 512>>, 3, "d", 0) >>

Stage3Blocks ==
    << Call("X", "convolutional_block", "X", 3, <<128, 128, 512>>, 3, "a", 2),
       Call("X", "residual_block", "X", 3, <<128, 128, 512>>, 3, "b", 0),
       Call("X", "residual_block", "X", 3, <<128, 128, 512>>, 3, "c", 0),
       Call("X", "residual_block", "X", 3, <<128, 128, 512>>, 3, "d", 0) >>

\* Stage 4 with its last block left out.
Stage4Blocks_FiveBlocks ==
    << Call("X", "convolutional_block", "X", 3, <<256, 256, 1024>>, 4, "a", 2),
       Call("X", "residual_block", "X", 3, <<256, 256, 1024>>, 4, "b", 0),
       Call("X", "residual_block", "X", 3, <<256, 256, 1024>>, 4, "c", 0),
       Call("X", "residual_block", "X", 3, <<256, 256, 1024>>, 4, "d", 0),
       Call("X", "residual_block", "X", 3, <<256, 256, 1024>>, 4, "e", 0) >>

Stage4Blocks ==
    << Call("X", "convolutional_block", "X", 3, <<256, 256, 1024>>, 4, "a", 2),
       Call("X", "residual_block", "X", 3, <<256, 256, 1024>>, 4, "b", 0),
       Call("X", "residual_block", "X", 3, <<256, 256, 1024>>, 4, "c", 0),
       Call("X", "residual_block", "X", 3, <<256, 256, 1024>>, 4, "d", 0),
       Call("X", "residual_block", "X", 3, <<256, 256, 1024>>, 4, "e", 0),
       Call("X", "residual_block", "X", 3, <<256, 256, 1024>>, 4, "f", 0) >>

\* Stage 5 with the filters of stage 4 left in its last block.
Stage5Blocks_Stage4Filters ==
    << Call("X", "convolutional_block", "X", 3, <<512, 512, 2048>>, 5, "a", 2),
       Call("X", "residual_block", "X", 3, <<512, 512, 2048>>, 5, "b", 0),
       Call("X", "residual_block", "X", 3, <<256, 256, 1024>>, 5, "c", 0) >>

Stage5Blocks ==
    << Call("X", "convolutional_block", "X", 3, <<512, 512, 2048>>, 5, "a", 2),
       Call("X", "residual_block", "X", 3, <<512, 512, 2048>>, 5, "b", 0),
       Call("X", "residual_block", "X", 3, <<512, 512, 2048>>, 5, "c", 0) >>

ResNet50Blocks == Stage2Blocks \o Stage3Blocks \o Stage4Blocks \o Stage5Blocks

ResNet50(classes) == ResNet50Stem \o ResNet50Blocks \o ResNet50Head(classes)

(***************************************************************************)
(* The overview notebook's functions.  Its layers carry no name argument   *)
(* inside the blocks.                                                      *)
(***************************************************************************)
overview_residual_block(f, filters, stage, block) ==
    LET F1 == filters[1]
        F2 == filters[2]
        F3 == filters[3]
    IN  << Assign("X_in", "X"),
           Conv2D("X", F1, 1, 1, "valid", "", "X"),
           BatchNormalization("X", 3, "", "X"),
           Activation("X", "relu", "X"),
           Conv2D("X", F2, f, 1, "same", "", "X"),
           BatchNormalization("X", 3, "", "X"),
           Activation("X", "relu", "X"),
           Conv2D("X", F3, 1, 1, "valid", "", "X"),
           BatchNormalization("X", 3, "", "X"),
           Add("X", "X", "X_in"),
           Activation("X", "relu", "X"),
           Return("X") >>

\* The overview convolutional_block with the input saved under X_shortcut too.
overview_convolutional_block_SavedShortcut(f, filters, stage, block, s) ==
    LET F1 == filters[1]
        F2 == filters[2]
        F3 == filters[3]
    IN  << Assign("X_in", "X"),
           Assign("X_shortcut", "X"),
           Conv2D("X", F1, 1, s, "valid", "", "X"),
           BatchNormalization("X", 3, "", "X"),
           Activation("X", "relu", "X"),
           Conv2D("X", F2, f, 1, "same", "", "X"),
           BatchNormalization("X", 3, "", "X"),
           Activation("X", "relu", "X"),
           Conv2D("X", F3, 1, 1, "valid", "", "X"),
           BatchNormalization("X", 3, "", "X"),
           Conv2D("X_shortcut", F3, 1, s, "valid", "", "X_shortcut"),
           BatchNormalization("X_shortcut", 3, "", "X_shortcut"),
           Add("X", "X", "X_in"),
           Activation("X", "relu", "X"),
           Return("X") >>

overview_convolutional_block(f, filters, stage, block, s) ==
    LET F1 == filters[1]
        F2 == filters[2]
        F3 == filters[3]
    IN  << Assign("X_in", "X"),
           Conv2D("X", F1, 1, s, "valid", "", "X"),
           BatchNormalization("X", 3, "", "X"),
           Activation("X", "relu", "X"),
           Conv2D("X", F2, f, 1, "same", "", "X"),
           BatchNormalization("X", 3, "", "X"),
           Activation("X", "relu", "X"),
           Conv2D("X", F3, 1, 1, "valid", "", "X"),
           BatchNormalization("X", 3, "", "X"),
           Conv2D("X_shortcut", F3, 1, s, "valid", "", "X_shortcut"),
           BatchNormalization("X_shortcut", 3, "", "X_shortcut"),
           Add("X", "X", "X_in"),
           Activation("X", "relu", "X"),
           Return("X") >>

overview_ResNet50Stem ==
    << Input("X_input"),
       ZeroPadding2D("X", 3, "X_input"),
       Conv2D("X", 64, 7, 2, "valid", "conv1", "X"),
       BatchNormalization("X", 3, "bn_conv1", "X"),
       Activation("X", "relu", "X"),
       MaxPooling2D("X", 3, 2, "X") >>

overview_ResNet50Head(classes) ==
    << AveragePooling2D("X", 2, "same", "X"),
       Flatten("X", "X"),
       Dense("X", classes, "softmax", "fc" \o ToString(classes), "X"),
       ReturnModel("X_input", "X") >>

overview_Stage2Blocks ==
    << Call("X", "convolutional_block", "X", 3, <<64, 64, 256>>, 2, "a", 1),
       Call("X", "identity_block", "X", 3, <<64, 64, 256>>, 2, "b", 0),
       Call("X", "identity_block", "X", 3, <<64, 64, 256>>, 2, "c", 0) >>

overview_Stage3Blocks ==
    << Call("X", "convolutional_block", "X", 3, <<128, 128, 512>>, 3, "a", 2),
       Call("X", "identity_block", "X", 3, <<128, 128, 512>>, 3, "b", 0),
       Call("X", "identity_block", "X", 3, <<128, 128, 512>>, 3, "c", 0),
       Call("X", "identity_block", "X", 3, <<128, 128, 512>>, 3, "d", 0) >>

overview_Stage4Blocks ==
    << Call("X", "convolutional_block", "X", 3, <<256, 256, 1024>>, 4, "a", 2),
       Call("X", "identity_block", "X", 3, <<256, 256, 1024>>, 4, "b", 0),
       Call("X", "identity_block", "X", 3, <<256, 256, 1024>>, 4, "c", 0),
       Call("X", "identity_block", "X", 3, <<256, 256, 1024>>, 4, "d", 0),
       Call("X", "identity_block", "X", 3, <<256, 256, 1024>>, 4, "e", 0),
       Call("X", "identity_block", "X", 3, <<256, 256, 1024>>, 4, "f", 0) >>

overview_Stage5Blocks ==
    << Call("X", "convolutional_block", "X", 3, <<512, 512, 2048>>, 5, "a", 2),
       Call("X", "identity_block", "X", 3, <<512, 512, 2048>>, 5, "b", 0),
       Call("X", "identity_block", "X", 3, <<512, 512, 2048>>, 5, "c", 0) >>

overview_ResNet50Blocks ==
    overview_Stage2Blocks \o overview_Stage3Blocks \o overview_Stage4Blocks \o overview_Stage5Blocks

overview_ResNet50(classes) ==
    overview_ResNet50Stem \o overview_ResNet50Blocks \o overview_ResNet50Head(classes)

\* The body the name fn is bound to by the notebook's def cell, for a call c.
\* A convolutional_block call without s takes the default s = 2.
FunctionBody(book, fn, c) ==
    CASE fn = "residual_block" ->
            IF book = "training" THEN residual_block(c.f, c.filters, c.stage, c.block)
            ELSE overview_residual_block(c.f, c.filters, c.stage, c.block)
      [] fn = "convolutional_block" ->
            LET s == IF c.s = 0 THEN 2 ELSE c.s
            IN  IF book = "training"
                THEN convolutional_block(c.f, c.filters, c.stage, c.block, s)
                ELSE overview_convolutional_block(c.f, c.filters, c.stage, c.block, s)
      [] OTHER -> << >>

(***************************************************************************)
(* The interpreter.                                                        *)
(*                                                                         *)
(* A run state is [graph, env, err, calls, ret, inp]:                      *)
(*   graph  the layer nodes built so far; a tensor is the index of the     *)
(*          node that produced it                                          *)
(*   env    the function's local names, 0 for a name not yet bound         *)
(*   err    "" or the exception that ended the run                         *)
(*   calls  the block calls entered so far, each with its arguments and    *)
(*          the tensor x it was given                                      *)
(*   ret    the returned tensor (0: nothing returned)                      *)
(*   inp    the model's input tensor, once Model(...) was built            *)
(* ctx is [book, defs, df, inputShape]: the notebook, the names bound in   *)
(* the kernel, the backend's data format, the argument of Input.           *)
(***************************************************************************)
NoLocals == [v \in LocalNames |-> 0]

Assigned(body, v) == \E i \in 1..Len(body) : body[i].op # "return" /\ body[i].op # "model" /\ body[i].tgt = v

\* Reading the name v inside a function: a name the body assigns somewhere is
\* local, and reading it before the assignment is an UnboundLocalError; any
\* other name is looked up in the kernel, where no tensor is bound.
ReadError(body, env, v) ==
    IF env[v] # 0 THEN ""
    ELSE IF Assigned(body, v) THEN "UnboundLocalError" ELSE "NameError"

FirstError(errs) ==
    LET bad == {i \in 1..Len(errs) : errs[i] # ""}
    IN  IF bad = {} THEN "" ELSE errs[CHOOSE i \in bad : \A j \in bad : i <= j]

Fail(st, e) == [st EXCEPT !.err = e]

Frame(graph, calls, x) ==
    [graph |-> graph, env |-> [NoLocals EXCEPT !["X"] = x], err |-> "", calls |-> calls,
     ret |-> 0, inp |-> 0]

ExecLayer(body, s, st, ctx) ==
    IF ~(NamesUsed(s.layer) \subseteq ctx.defs) THEN Fail(st, "NameError")
    ELSE LET e == FirstError([i \in 1..Len(s.args) |-> ReadError(body, st.env, s.args[i])])
         IN  IF e # "" THEN Fail(st, e)
             ELSE LET ins   == [i \in 1..Len(s.args) |-> st.env[s.args[i]]]
                      shape == OutShape(ctx.df, s.layer,
                                        [i \in 1..Len(ins) |-> st.graph[ins[i]].shape],
                                        ctx.inputShape)
                      node  == [layer |-> s.layer, in |-> ins, shape |-> shape]
                  IN  IF shape = <<>> THEN Fail(st, "ValueError")
                      ELSE [st EXCEPT !.graph = Append(st.graph, node),
                                      !.env[s.tgt] = Len(st.graph) + 1]

RECURSIVE Exec(_, _, _, _)
ExecCall(body, s, st, ctx) ==
    IF s.fn \notin ctx.defs THEN Fail(st, "NameError")
    ELSE LET e == ReadError(body, st.env, s.arg)
         IN  IF e # "" THEN Fail(st, e)
             ELSE LET c   == [fn |-> s.fn, f |-> s.f, filters |-> s.filters,
                              stage |-> s.stage, block |-> s.block, s |-> s.s,
                              x |-> st.env[s.arg]]
                      sub == Exec(FunctionBody(ctx.book, s.fn, c), 1,
                                  Frame(st.graph, Append(st.calls, c), st.env[s.arg]), ctx)
                  IN  IF sub.err # ""
                      THEN [st EXCEPT !.graph = sub.graph, !.calls = sub.calls, !.err = sub.err]
                      ELSE [st EXCEPT !.graph = sub.graph, !.calls = sub.calls,
                                      !.env[s.tgt] = sub.ret]

Exec(body, i, st, ctx) ==
    IF st.err # "" \/ i > Len(body) THEN st
    ELSE LET s == body[i]
         IN  CASE s.op = "assign" ->
                    LET e == ReadError(body, st.env, s.src)
                    IN  IF e # "" THEN Fail(st, e)
                        ELSE Exec(body, i + 1, [st EXCEPT !.env[s.tgt] = st.env[s.src]], ctx)
               [] s.op = "layer" -> Exec(body, i + 1, ExecLayer(body, s, st, ctx), ctx)
               [] s.op = "call" -> Exec(body, i + 1, ExecCall(body, s, st, ctx), ctx)
               [] s.op = "return" ->
                    LET e == ReadError(body, st.env, s.src)
                    IN  IF e # "" THEN Fail(st, e) ELSE [st EXCEPT !.ret = st.env[s.src]]
               [] s.op = "model" ->
                    LET e == FirstError(<<IF "Model" \in ctx.defs THEN "" ELSE "NameError",
                                          ReadError(body, st.env, s.inputs),
                                          ReadError(body, st.env, s.outputs)>>)
                    IN  IF e # "" THEN Fail(st, e)
                        ELSE [st EXCEPT !.ret = st.env[s.outputs], !.inp = st.env[s.inputs]]

\* A call of the notebook's function fn on a fresh input tensor of shape x.
NoTensor == [layer |-> LayerCfg("Input", 0, 0, 0, "", 0, "", ""), in |-> <<>>, shape |-> <<>>]

CallBlock(book, defs, df, x, c) ==
    IF c.fn \notin defs
    THEN Fail(Frame(<<>>, <<>>, 0), "NameError")
    ELSE Exec(FunctionBody(book, c.fn, c), 1,
              Frame(<<[NoTensor EXCEPT !.shape = x]>>, <<c>>, 1),
              [book |-> book, defs |-> defs, df |-> df, inputShape |-> x])

\* A call ResNet50(input_shape = shape, classes = classes) in the kernel.
CallResNet50(book, defs, df, shape, classes) ==
    IF "ResNet50" \notin defs
    THEN Fail(Frame(<<>>, <<>>, 0), "NameError")
    ELSE Exec(IF book = "training" THEN ResNet50(classes) ELSE overview_ResNet50(classes), 1,
              Frame(<<>>, <<>>, 0),
              [book |-> book, defs |-> defs, df |-> df, inputShape |-> shape])

(***************************************************************************)
(* The kernel and the cells.                                               *)
(***************************************************************************)
TrainingImports ==
    {"np", "pd", "plt", "keras", "mnist", "Sequential", "Input", "Add", "Dense",
     "Activation", "ZeroPadding2D", "BatchNormalization", "Flatten", "Conv2D",
     "AveragePooling2D", "MaxPooling2D", "GlobalMaxPooling2D", "Model", "load_model",
     "K", "glorot_uniform"}

OverviewImports ==
    {"np", "layers", "Input", "Add", "Dense", "Activation", "ZeroPadding2D",
     "BatchNormalization", "Flatten", "Conv2D", "AveragePooling2D", "MaxPooling2D",
     "GlobalMaxPooling2D", "Model", "load_model", "image", "layer_utils", "get_file",
     "preprocess_input", "pydot", "SVG", "model_to_dot", "plot_model", "glorot_uniform",
     "scipy", "imshow", "K"}

NCells(book) == IF book = "training" THEN 10 ELSE 6

NoInts == [batch_size |-> 0, num_classes |-> 0, epochs |-> 0, img_rows |-> 0, img_cols |-> 0]

NoModel == [bound |-> FALSE, compiled |-> FALSE, run |-> Frame(<<>>, <<>>, 0)]

\* The first of the names that is not bound, as the NameError it raises; "" if all are.
RECURSIVE Lookup(_, _)
Lookup(names, bound) ==
    IF names = <<>> THEN ""
    ELSE IF Head(names) \notin bound THEN "NameError:" \o Head(names)
    ELSE Lookup(Tail(names), bound)

\* The names of the kernel that are bound, whatever variable holds their value.
Bound ==
    defined \cup {n \in DOMAIN ints : ints[n] # 0}
            \cup (IF x_train # <<>> THEN {"x_train", "x_test"} ELSE {})
            \cup (IF input_shape # <<>> THEN {"input_shape"} ELSE {})
            \cup (IF model.bound THEN {"model"} ELSE {})

Raise(i, e) == raised' = [raised EXCEPT ![i] = e]

\* training, cell 1: the imports.
ImportCell(i) ==
    /\ defined' = defined \cup TrainingImports
    /\ Raise(i, "")
    /\ UNCHANGED <<fmt, ints, x_train, input_shape, model, fits>>

\* training, cell 2: "Data formating".
DataCell(i) ==
    /\ ints' = [batch_size |-> 128, num_classes |-> 10, epochs |-> 2,
                img_rows |-> 28, img_cols |-> 28]
    /\ LET e == Lookup(<<"mnist", "K", "keras">>, defined)
       IN  IF e # ""
           THEN /\ Raise(i, e)
                /\ UNCHANGED <<defined, x_train, input_shape>>
           ELSE /\ Raise(i, "")
                /\ defined' = defined \cup {"y_train", "y_test"}
                /\ IF fmt = "channels_first"
                   THEN /\ x_train' = <<1, ints'.img_rows, ints'.img_cols>>
                        /\ UNCHANGED input_shape
                   ELSE /\ x_train' = <<ints'.img_rows, ints'.img_cols, 1>>
                        /\ input_shape' = <<ints'.img_rows, ints'.img_cols, 1>>
    /\ UNCHANGED <<fmt, model, fits>>

\* training, cell 3: x_train.shape
ShapeCell(i) ==
    /\ Raise(i, Lookup(<<"x_train">>, Bound))
    /\ UNCHANGED kernel

\* A def cell: binds the function's name.
DefCell(i, fn) ==
    /\ defined' = defined \cup {fn}
    /\ Raise(i, "")
    /\ UNCHANGED <<fmt, ints, x_train, input_shape, model, fits>>

\* A compile that leaves the model as it was.
compile_Forgotten(m) == m

\* model.compile(optimizer = 'adam', loss = 'categorical_crossentropy', metrics = ['accuracy'])
compile(m) == [m EXCEPT !.compiled = TRUE]

\* training, cell 7: model = ResNet50(input_shape = (28,28,1), classes = num_classes)
\*                   model.compile(...)
ModelCell(i) ==
    LET e == Lookup(<<"ResNet50", "num_classes">>, Bound)
        r == CallResNet50(nb, defined, fmt, <<28, 28, 1>>, ints.num_classes)
    IN  /\ IF e # "" THEN Raise(i, e) /\ UNCHANGED model
           ELSE IF r.err # "" THEN Raise(i, r.err) /\ UNCHANGED model
           ELSE /\ Raise(i, "")
                /\ model' = compile([bound |-> TRUE, compiled |-> FALSE, run |-> r])
        /\ UNCHANGED <<fmt, defined, ints, x_train, input_shape, fits>>

\* The shape of the samples the model takes.
ModelInputShape(m) == m.run.graph[m.run.inp].shape

\* model.fit(x, y, epochs = epochs, batch_size = batch_size): what the call does
\* to the list of fits, "" for no exception.  One "Epoch k/n" line per epoch.
fit(m, x, epochs, batch_size) ==
    IF ~m.compiled THEN [err |-> "RuntimeError", log |-> <<>>]
    ELSE IF x # ModelInputShape(m) THEN [err |-> "ValueError", log |-> <<>>]
    ELSE [err |-> "", log |-> [k \in 1..epochs |-> <<k, epochs>>]]

\* training, cell 8: model.fit(x_train, y_train, epochs = epochs, batch_size = batch_size)
\* The History object the call returns is displayed; no name is bound to it.
FitCell(i) ==
    LET e == Lookup(<<"model", "x_train", "y_train", "epochs", "batch_size">>, Bound)
        r == fit(model, x_train, ints.epochs, ints.batch_size)
    IN  /\ IF e # "" THEN Raise(i, e) /\ UNCHANGED fits
           ELSE /\ Raise(i, r.err)
                /\ fits' = Append(fits, [epochs |-> ints.epochs, batch_size |-> ints.batch_size,
                                         x |-> x_train, compiled |-> model.compiled,
                                         err |-> r.err, log |-> r.log])
        /\ UNCHANGED <<fmt, defined, ints, x_train, input_shape, model>>

\* training, cells 9 and 10: plt.plot(history.history[...]) ...
PlotCell(i) ==
    /\ Raise(i, Lookup(<<"plt", "history">>, Bound))
    /\ UNCHANGED kernel

\* overview, cell 1: from IPython.display import Math
MathCell(i) ==
    /\ defined' = defined \cup {"Math"}
    /\ Raise(i, "")
    /\ UNCHANGED <<fmt, ints, x_train, input_shape, model, fits>>

\* overview, cell 2: the imports, K.set_image_data_format('channels_last'),
\* K.set_learning_phase(1)
OverviewImportCell(i) ==
    /\ defined' = defined \cup OverviewImports
    /\ fmt' = "channels_last"
    /\ Raise(i, "")
    /\ UNCHANGED <<ints, x_train, input_shape, model, fits>>

\* overview, cell 6: the empty cell.
EmptyCell(i) ==
    /\ Raise(i, "")
    /\ UNCHANGED kernel

\* One execution of code cell i of the notebook.
Cell(i) ==
    IF nb = "training"
    THEN CASE i = 1 -> ImportCell(i)
           [] i = 2 -> DataCell(i)
           [] i = 3 -> ShapeCell(i)
           [] i = 4 -> DefCell(i, "residual_block")
           [] i = 5 -> DefCell(i, "convolutional_block")
           [] i = 6 -> DefCell(i, "ResNet50")
           [] i = 7 -> ModelCell(i)
           [] i = 8 -> FitCell(i)
           [] i \in {9, 10} -> PlotCell(i)
    ELSE CASE i = 1 -> MathCell(i)
           [] i = 2 -> OverviewImportCell(i)
           [] i = 3 -> DefCell(i, "residual_block")
           [] i = 4 -> DefCell(i, "convolutional_block")
           [] i = 5 -> DefCell(i, "ResNet50")
           [] i = 6 -> EmptyCell(i)

(***************************************************************************)
(* Inputs of the calls made by hand.                                       *)
(***************************************************************************)
FilterTriples == {<<1, 1, 2>>, <<2, 3, 4>>}

Channels == {2, 4}

Kernels == {1, 3}

InputShapes == {<<28, 28, 1>>, <<64, 64, 3>>, <<32, 32, 3>>, <<1, 1, 1>>}

ClassCounts == {6, 10}

NoProbe == [fn |-> "", x |-> <<>>, classes |-> 0, df |-> "", defs |-> {},
            c |-> [fn |-> "", f |-> 0, filters |-> <<>>, stage |-> 0, block |-> "", s |-> 0,
                   x |-> 0],
            run |-> Frame(<<>>, <<>>, 0)]

\* A session runs the cells of its notebook in document order, as far as it
\* likes, and then goes on by hand: with up to MaxManual executions of cells
\* in any order, or with one call of a function of the notebook.
Init ==
    /\ nb \in {"training", "overview"}
    /\ fmt \in {"channels_last", "channels_first"}
    /\ defined = {}
    /\ ints = NoInts
    /\ x_train = <<>>
    /\ input_shape = <<>>
    /\ model = NoModel
    /\ fits = <<>>
    /\ raised = [i \in 1..NCells(nb) |-> "unrun"]
    /\ pc = 1
    /\ manual = 0
    /\ probe = NoProbe

\* The next cell of a run of the notebook in document order.
RunNextCell ==
    /\ manual = 0
    /\ pc <= NCells(nb)
    /\ Cell(pc)
    /\ pc' = pc + 1
    /\ UNCHANGED <<nb, manual, probe>>

\* Any cell, executed by hand.
RunCellByHand ==
    /\ manual < MaxManual
    /\ probe = NoProbe
    /\ \E i \in 1..NCells(nb) : Cell(i)
    /\ manual' = manual + 1
    /\ UNCHANGED <<nb, pc, probe>>

\* A call by hand of one of the two block functions on a fresh tensor.
ProbeBlock ==
    /\ manual = 0
    /\ \E fn \in {"residual_block", "convolutional_block"}, h \in 1..MaxDim, w \in 1..MaxDim,
          ch \in Channels, filters \in FilterTriples, f \in Kernels, s \in 1..MaxStride :
          /\ fn = "residual_block" => s = 1
          /\ LET c == [fn |-> fn, f |-> f, filters |-> filters, stage |-> 2, block |-> "a",
                       s |-> IF fn = "residual_block" THEN 0 ELSE s, x |-> 1]
                 x == Shape3(fmt, h, w, ch)
             IN  probe' = [fn |-> fn, x |-> x, classes |-> 0, df |-> fmt, defs |-> defined,
                           c |-> c,
                           run |-> CallBlock(nb, defined, fmt, x, c)]
    /\ manual' = manual + 1
    /\ UNCHANGED <<nb, pc, raised, kernel>>

\* A call by hand of ResNet50.
ProbeResNet50 ==
    /\ manual = 0
    /\ \E shape \in InputShapes, classes \in ClassCounts :
          probe' = [NoProbe EXCEPT !.fn = "ResNet50", !.x = shape, !.classes = classes,
                                   !.df = fmt, !.defs = defined,
                                   !.run = CallResNet50(nb, defined, fmt, shape, classes)]
    /\ manual' = manual + 1
    /\ UNCHANGED <<nb, pc, raised, kernel>>

Next == RunNextCell \/ RunCellByHand \/ ProbeBlock \/ ProbeResNet50

Spec == Init /\ [][Next]_vars

(***************************************************************************)
(* Reading a function body and a built graph.                              *)
(***************************************************************************)
ResNet50Of(book) == IF book = "training" THEN ResNet50(10) ELSE overview_ResNet50(6)

IsCall(s) == s.op = "call"

\* The block calls written in a body, in order.
BlockCalls(body) == SelectSeq(body, IsCall)

\* The arguments of a call, written or made.
Args(c) == [fn |-> c.fn, f |-> c.f, filters |-> c.filters, stage |-> c.stage,
            block |-> c.block, s |-> c.s]

InStage(calls, k) == {i \in 1..Len(calls) : calls[i].stage = k}

OpensStage(calls, i) == i = 1 \/ calls[i - 1].stage # calls[i].stage

StageFilters(k) ==
    CASE k = 2 -> <<64, 64, 256>>
      [] k = 3 -> <<128, 128, 512>>
      [] k = 4 -> <<256, 256, 1024>>
      [] k = 5 -> <<512, 512, 2048>>
      [] OTHER -> <<>>

\* The nodes of a graph built by a layer of the given name.
Named(graph, name) == {i \in 1..Len(graph) : graph[i].layer.name = name}

OfKind(graph, kind) == {i \in 1..Len(graph) : graph[i].layer.kind = kind}

\* The kernel has run the def cell of ResNet50.
ResNet50Defined == "ResNet50" \in defined

\* The training kernel holds a model built by its ResNet50.
TrainedGraph == nb = "training" /\ model.bound

(***************************************************************************)
(* C1.  ResNet50 is written as 16 block calls, in stage order 2, 3, 4, 5,  *)
(* with 3, 4, 6 and 3 calls in the stages; the call that opens a stage is  *)
(* a convolutional_block and every other call is a residual_block (called  *)
(* identity_block in the overview notebook).  The calls a successful build *)
(* of the training notebook makes are exactly the calls written.           *)
(***************************************************************************)
C1_StageAssembly ==
    /\ ResNet50Defined =>
          LET calls == BlockCalls(ResNet50Of(nb))
          IN  /\ Len(calls) = 16
              /\ Cardinality(InStage(calls, 2)) = 3
              /\ Cardinality(InStage(calls, 3)) = 4
              /\ Cardinality(InStage(calls, 4)) = 6
              /\ Cardinality(InStage(calls, 5)) = 3
              /\ \A i \in 1..Len(calls) : calls[i].stage \in 2..5
              /\ \A i \in 2..Len(calls) : calls[i - 1].stage <= calls[i].stage
              /\ \A i \in 1..Len(calls) :
                    IF OpensStage(calls, i)
                    THEN calls[i].fn = "convolutional_block"
                    ELSE calls[i].fn \in {"residual_block", "identity_block"}
    /\ TrainedGraph =>
          /\ Len(model.run.calls) = 16
          /\ [i \in 1..16 |-> Args(model.run.calls[i])]
                = [i \in 1..16 |-> Args(BlockCalls(ResNet50Of(nb))[i])]

C1_Witness ==
    /\ TrainedGraph
    /\ Len(model.run.calls) = 16
    /\ model.run.calls[1].fn = "convolutional_block"
    /\ model.run.calls[16].fn = "residual_block"

(***************************************************************************)
(* C2.  Every block call written in ResNet50 passes the filter triple of   *)
(* its stage and f = 3; in the graph the training notebook builds, the     *)
(* three convolutions of every block have the filter counts of the stage's *)
(* triple and the middle one (branch 2b) has kernel size 3.                *)
(***************************************************************************)
C2_StageFilters ==
    /\ ResNet50Defined =>
          LET calls == BlockCalls(ResNet50Of(nb))
          IN  \A i \in 1..Len(calls) :
                 calls[i].filters = StageFilters(calls[i].stage) /\ calls[i].f = 3
    /\ TrainedGraph =>
          LET g == model.run.graph
          IN  \A i \in 1..Len(model.run.calls) :
                 LET c    == model.run.calls[i]
                     base == conv_name_base(c.stage, c.block)
                     tri  == StageFilters(c.stage)
                 IN  /\ \E n \in Named(g, base \o "2a") :
                           g[n].layer.kind = "Conv2D" /\ g[n].layer.units = tri[1]
                     /\ \E n \in Named(g, base \o "2b") :
                           /\ g[n].layer.kind = "Conv2D"
                           /\ g[n].layer.units = tri[2]
                           /\ g[n].layer.k = 3
                     /\ \E n \in Named(g, base \o "2c") :
                           g[n].layer.kind = "Conv2D" /\ g[n].layer.units = tri[3]

C2_Witness ==
    /\ TrainedGraph
    /\ \E n \in Named(model.run.graph, "res4f_branch2b") :
          model.run.graph[n].layer.units = 256 /\ model.run.graph[n].layer.k = 3

(***************************************************************************)
(* Calls made by hand.                                                     *)
(***************************************************************************)
BlockLibrary == {"Conv2D", "BatchNormalization", "Activation", "Add", "glorot_uniform"}

\* The last call by hand was of the block function fn, made with fn and the
\* layer library bound in the kernel.
Probed(fn) == probe.fn = fn /\ fn \in probe.defs /\ BlockLibrary \subseteq probe.defs

ProbeH == probe.x[HAxis(probe.df)]

ProbeW == probe.x[WAxis(probe.df)]

ProbeC == probe.x[CAxis(probe.df)]

\* The Conv2D nodes of a graph that read the tensor x.
ConvsReading(graph, x) ==
    {i \in OfKind(graph, "Conv2D") : graph[i].in = <<x>>}

(***************************************************************************)
(* C3, as stated: the convolutional_block opening each of the stages       *)
(* 2, 3, 4 and 5 is called with s = 2.                                     *)
(***************************************************************************)
C3_AllStagesStride2 ==
    ResNet50Defined =>
        LET calls == BlockCalls(ResNet50Of(nb))
        IN  \A i \in 1..Len(calls) :
               calls[i].fn = "convolutional_block" => calls[i].s = 2

(***************************************************************************)
(* C3, amended.  The convolutional_block opening stage 2 is called with    *)
(* s = 1 and the ones opening stages 3, 4 and 5 with s = 2.  The training  *)
(* notebook's convolutional_block gives its stride s to exactly two        *)
(* convolutions, both reading the block's input: the first convolution of  *)
(* the main path (branch 2a) and the shortcut projection (branch 1); every *)
(* other convolution of the block has stride 1.                            *)
(***************************************************************************)
C3_StridePerStage ==
    /\ ResNet50Defined =>
          LET calls == BlockCalls(ResNet50Of(nb))
          IN  \A i \in 1..Len(calls) :
                 calls[i].fn = "convolutional_block" =>
                    calls[i].s = IF calls[i].stage = 2 THEN 1 ELSE 2
    /\ TrainedGraph =>
          LET g == model.run.graph
          IN  \A i \in 1..Len(model.run.calls) :
                 LET c    == model.run.calls[i]
                     base == conv_name_base(c.stage, c.block)
                 IN  c.fn = "convolutional_block" =>
                        /\ ConvsReading(g, c.x) = Named(g, base \o "2a") \cup Named(g, base \o "1")
                        /\ Cardinality(ConvsReading(g, c.x)) = 2
                        /\ \A n \in ConvsReading(g, c.x) : g[n].layer.s = c.s
                        /\ \A n \in Named(g, base \o "2b") \cup Named(g, base \o "2c") :
                              g[n].layer.s = 1
    /\ (nb = "training" /\ Probed("convolutional_block") /\ probe.run.err = "") =>
          LET g == probe.run.graph
          IN  /\ Cardinality(ConvsReading(g, 1)) = 2
              /\ \A n \in OfKind(g, "Conv2D") :
                    g[n].layer.s = IF n \in ConvsReading(g, 1) THEN probe.c.s ELSE 1

C3_Witness ==
    /\ TrainedGraph
    /\ \E n \in Named(model.run.graph, "res2a_branch1") : model.run.graph[n].layer.s = 1
    /\ \E n \in Named(model.run.graph, "res3a_branch1") : model.run.graph[n].layer.s = 2
    /\ \E n \in Named(model.run.graph, "res5a_branch2a") : model.run.graph[n].layer.s = 2

(***************************************************************************)
(* C4.  residual_block preserves shape.  Called on a tensor of height H,   *)
(* width W and C channels with F3 = C, the call builds its graph without   *)
(* an error; the one Add of the block adds the main path's output to the   *)
(* saved input, both of the input's shape, and the block returns a tensor  *)
(* of the input's shape.  In the graph the training notebook builds, the   *)
(* tensor given to each residual_block call has F3 channels.               *)
(***************************************************************************)
C4_ResidualPreservesShape ==
    /\ (Probed("residual_block") /\ probe.c.filters[3] = ProbeC) =>
          LET r    == probe.run
              adds == OfKind(r.graph, "Add")
          IN  /\ r.err = ""
              /\ r.ret # 0
              /\ r.graph[r.ret].shape = probe.x
              /\ Cardinality(adds) = 1
              /\ \A a \in adds :
                    /\ r.graph[a].in[2] = 1
                    /\ r.graph[a].in[1] # 1
                    /\ r.graph[r.graph[a].in[1]].shape = probe.x
                    /\ r.graph[a].shape = probe.x
    /\ TrainedGraph =>
          \A i \in 1..Len(model.run.calls) :
             LET c == model.run.calls[i]
             IN  c.fn = "residual_block" =>
                    model.run.graph[c.x].shape[CAxis(fmt)] = c.filters[3]

C4_Witness ==
    /\ Probed("residual_block")
    /\ probe.c.f = 3
    /\ ProbeH = 3 /\ ProbeW = 2 /\ ProbeC = 4
    /\ probe.c.filters = <<2, 3, 4>>
    /\ probe.run.ret # 0
    /\ probe.run.graph[probe.run.ret].shape = probe.x

(***************************************************************************)
(* C5.  In the training notebook's convolutional_block the tensor added to *)
(* the main path is the block's input passed through the projection: a     *)
(* 1x1 convolution with F3 filters and stride s, then batch normalization. *)
(* For every input of height H, width W and any channel count, any stride  *)
(* s and any filter triple, both operands of the Add, and the tensor the   *)
(* block returns, have the shape ((H-1) div s + 1, (W-1) div s + 1, F3).   *)
(***************************************************************************)
C5_ProjectedShortcut ==
    (nb = "training" /\ Probed("convolutional_block")) =>
        LET r    == probe.run
            g    == r.graph
            adds == OfKind(g, "Add")
            out  == Shape3(probe.df, (ProbeH - 1) \div probe.c.s + 1,
                                     (ProbeW - 1) \div probe.c.s + 1, probe.c.filters[3])
        IN  /\ r.err = ""
            /\ r.ret # 0
            /\ g[r.ret].shape = out
            /\ Cardinality(adds) = 1
            /\ \A a \in adds :
                  LET main == g[a].in[1]
                      bn   == g[a].in[2]
                      proj == g[bn].in[1]
                  IN  /\ g[main].shape = out
                      /\ g[bn].shape = out
                      /\ g[bn].layer.kind = "BatchNormalization"
                      /\ g[proj].layer.kind = "Conv2D"
                      /\ g[proj].layer.units = probe.c.filters[3]
                      /\ g[proj].layer.k = 1
                      /\ g[proj].layer.s = probe.c.s
                      /\ g[proj].in = <<1>>
                      /\ main # bn

C5_Witness ==
    /\ nb = "training"
    /\ Probed("convolutional_block")
    /\ probe.c.s = 2
    /\ ProbeH = 3 /\ ProbeW = 2 /\ ProbeC = 2
    /\ probe.c.filters = <<2, 3, 4>>
    /\ probe.run.ret # 0
    /\ probe.run.graph[probe.run.ret].shape = Shape3(probe.df, 2, 1, 4)

(***************************************************************************)
(* C6, as stated: the two notebooks describe the same layer graph.  A call *)
(* of a function of one notebook and the call of the other notebook's      *)
(* function of that name on the same arguments end the same way and build  *)
(* the same graph, layer names apart: the same layers in the same order    *)
(* with the same settings and the same operands.                           *)
(***************************************************************************)
Other(book) == IF book = "training" THEN "overview" ELSE "training"

Unnamed(node) == [node EXCEPT !.layer.name = ""]

Topology(run) ==
    [graph |-> [i \in 1..Len(run.graph) |-> Unnamed(run.graph[i])],
     err |-> run.err, ret |-> run.ret, inp |-> run.inp]

C6_SameTopology ==
    /\ \A fn \in {"residual_block", "convolutional_block"} :
          Probed(fn) =>
             Topology(probe.run)
                = Topology(CallBlock(Other(nb), probe.defs, probe.df, probe.x, probe.c))
    /\ (probe.fn = "ResNet50" /\ "ResNet50" \in probe.defs) =>
          Topology(probe.run)
             = Topology(CallResNet50(Other(nb), probe.defs, probe.df, probe.x, probe.classes))

(***************************************************************************)
(* C7.  In the overview notebook every call of convolutional_block ends in *)
(* an unbound-name error and returns no tensor, and no Add is built: with  *)
(* the layer library imported the call builds the eight layers of the main *)
(* path and then raises UnboundLocalError reading X_shortcut.  A call of   *)
(* that notebook's ResNet50 returns no model and enters at most one block; *)
(* when the stem accepts the input shape and the notebook's cells have run *)
(* it raises UnboundLocalError inside its first block, stage 2 block 'a'.  *)
(***************************************************************************)
\* The names the overview notebook binds when all its cells have run.
AllCellsRun(defs) ==
    OverviewImports \cup {"Math", "residual_block", "convolutional_block", "ResNet50"}
        \subseteq defs

C7_OverviewConvBlockUnbound ==
    /\ (nb = "overview" /\ probe.fn = "convolutional_block"
                        /\ "convolutional_block" \in probe.defs) =>
          /\ probe.run.ret = 0
          /\ probe.run.err \in {"UnboundLocalError", "NameError"}
          /\ OfKind(probe.run.graph, "Add") = {}
          /\ Probed("convolutional_block") =>
                /\ probe.run.err = "UnboundLocalError"
                /\ Len(probe.run.graph) = 9
                /\ ConvsReading(probe.run.graph, 1) = {2}
    /\ (nb = "overview" /\ probe.fn = "ResNet50") =>
          /\ probe.run.ret = 0
          /\ probe.run.err # ""
          /\ Len(probe.run.calls) <= 1
          /\ OfKind(probe.run.graph, "Add") = {}
          /\ Len(probe.run.calls) = 1 =>
                Args(probe.run.calls[1]) = Args(overview_Stage2Blocks[1])
          /\ (AllCellsRun(probe.defs) /\ probe.df = "channels_last"
                                      /\ probe.x = <<64, 64, 3>>) =>
                /\ probe.run.err = "UnboundLocalError"
                /\ Len(probe.run.calls) = 1
                /\ probe.run.calls[1].stage = 2
                /\ probe.run.calls[1].block = "a"

C7_Witness ==
    /\ nb = "overview"
    /\ probe.fn = "ResNet50"
    /\ probe.x = <<64, 64, 3>>
    /\ probe.classes = 6
    /\ probe.run.err = "UnboundLocalError"
    /\ Len(probe.run.calls) = 1
    /\ probe.run.calls[1].fn = "convolutional_block"

(***************************************************************************)
(* C8, as stated: when the training notebook's cells are run once each in  *)
(* document order from a fresh kernel, the two plotting cells raise no     *)
(* NameError on history.                                                   *)
(***************************************************************************)
InDocumentOrder == nb = "training" /\ manual = 0

C8_NoNameErrorInDocumentOrder ==
    InDocumentOrder => \A i \in {9, 10} : raised[i] # "NameError:history"

(***************************************************************************)
(* C9.  In a run of the training notebook in document order, fit is never  *)
(* called before the model cell has built and compiled the model, and it   *)
(* is called at most once.  With the channels_last backend, after the fit  *)
(* cell the model is the one ResNet50 built for input shape (28,28,1) and  *)
(* 10 classes, it is compiled, and fit was called exactly once, with       *)
(* epochs = 2 and batch_size = 128, and ran the two epochs 1/2 and 2/2.    *)
(***************************************************************************)
C9_BuildCompileFit ==
    InDocumentOrder =>
        /\ Len(fits) <= 1
        /\ pc <= 7 => ~model.bound
        /\ pc <= 8 => fits = <<>>
        /\ model.compiled => model.bound
        /\ \A i \in 1..Len(fits) : model.bound /\ fits[i].compiled
        /\ (pc > 8 /\ fmt = "channels_last") =>
              /\ model.bound /\ model.compiled
              /\ ModelInputShape(model) = <<28, 28, 1>>
              /\ model.run.graph[model.run.ret].shape = <<10>>
              /\ Len(fits) = 1
              /\ fits[1].epochs = 2
              /\ fits[1].batch_size = 128
              /\ fits[1].err = ""
              /\ fits[1].log = << <<1, 2>>, <<2, 2>> >>
              /\ raised[7] = "" /\ raised[8] = ""

C9_Witness ==
    /\ InDocumentOrder
    /\ pc > 8
    /\ Len(fits) = 1
    /\ fits[1].log = << <<1, 2>>, <<2, 2>> >>
    /\ fits[1].compiled

(***************************************************************************)
(* C10.  With the channels_last backend the model cell of the training     *)
(* notebook builds its model, and in the graph of a model the notebook     *)
(* built for (28,28,1) and 10 classes every tensor has height and width    *)
(* of at least 1: 14x14x64 after conv1, 6x6x64 after max pooling,          *)
(* 6x6x256, 3x3x512, 2x2x1024 and 1x1x2048 after the stages 2 to 5.  The   *)
(* graph has 16 Add layers and the two operands of each have one shape,    *)
(* the tensor entering Flatten is 1x1x2048 and the output has length 10.   *)
(***************************************************************************)
\* The tensor the stage after the last call of stage k reads.
StageOutput(run, k) ==
    IF \E i \in 1..Len(run.calls) : run.calls[i].stage = k + 1
    THEN run.calls[CHOOSE i \in 1..Len(run.calls) :
                      run.calls[i].stage = k + 1 /\ OpensStage(run.calls, i)].x
    ELSE run.graph[CHOOSE n \in OfKind(run.graph, "AveragePooling2D") : TRUE].in[1]

C10_ShapesWellDefined ==
    /\ (InDocumentOrder /\ pc > 7 /\ fmt = "channels_last") => model.bound
    /\ TrainedGraph =>
          LET r == model.run
              g == r.graph
          IN  /\ \A n \in 1..Len(g) : Positive(g[n].shape)
              /\ g[r.inp].shape = <<28, 28, 1>>
              /\ \A n \in Named(g, "conv1") : g[n].shape = <<14, 14, 64>>
              /\ Cardinality(Named(g, "conv1")) = 1
              /\ Cardinality(OfKind(g, "MaxPooling2D")) = 1
              /\ \A n \in OfKind(g, "MaxPooling2D") :
                    g[n].shape = <<6, 6, 64>> /\ r.calls[1].x = n
              /\ g[StageOutput(r, 2)].shape = <<6, 6, 256>>
              /\ g[StageOutput(r, 3)].shape = <<3, 3, 512>>
              /\ g[StageOutput(r, 4)].shape = <<2, 2, 1024>>
              /\ g[StageOutput(r, 5)].shape = <<1, 1, 2048>>
              /\ Cardinality(OfKind(g, "Add")) = 16
              /\ \A a \in OfKind(g, "Add") :
                    /\ Len(g[a].in) = 2
                    /\ g[g[a].in[1]].shape = g[g[a].in[2]].shape
              /\ Cardinality(OfKind(g, "Flatten")) = 1
              /\ \A n \in OfKind(g, "Flatten") : g[g[n].in[1]].shape = <<1, 1, 2048>>
              /\ g[r.ret].layer.kind = "Dense"
              /\ g[r.ret].shape = <<10>>

C10_Witness ==
    /\ TrainedGraph
    /\ fmt = "channels_last"
    /\ model.run.graph[StageOutput(model.run, 5)].shape = <<1, 1, 2048>>
    /\ model.run.graph[model.run.ret].shape = <<10>>
    /\ Cardinality(OfKind(model.run.graph, "Add")) = 16

(***************************************************************************)
(* C11.  In a graph the training notebook's ResNet50 built, the path from  *)
(* the output back to the input along the first operand of every layer     *)
(* (the main path) holds exactly 50 layers that are a Conv2D or a Dense:   *)
(* conv1, the three convolutions 2a, 2b, 2c of each of the 16 block calls  *)
(* and the Dense layer that is the output.  The Conv2D layers off the main *)
(* path are 4, the projection named branch 1 of each convolutional_block   *)
(* call, which reads the tensor the call was given.                        *)
(***************************************************************************)
\* The nodes from n back to the node stop, or to a node without operands,
\* along the first operand.
RECURSIVE PathBetween(_, _, _)
PathBetween(graph, n, stop) ==
    IF n = stop \/ graph[n].in = <<>> THEN {n}
    ELSE {n} \cup PathBetween(graph, graph[n].in[1], stop)

\* The tensors a run's main path is known to pass, from the output back: the
\* output, the tensor given to each block call, the model's input.
Waypoints(r) ==
    <<r.ret>> \o [i \in 1..Len(r.calls) |-> r.calls[Len(r.calls) + 1 - i].x] \o <<r.inp>>

\* The path from the output back to the input along the first operand, walked
\* from waypoint to waypoint.
Chained(r) ==
    LET w == Waypoints(r)
    IN  \A i \in 1..(Len(w) - 1) : w[i + 1] \in PathBetween(r.graph, w[i], w[i + 1])

MainPath(r) ==
    LET w == Waypoints(r)
    IN  UNION {PathBetween(r.graph, w[i], w[i + 1]) : i \in 1..(Len(w) - 1)}

\* The layers counted in the 50 of ResNet-50: convolutions and fully connected layers.
Weighted(graph) == OfKind(graph, "Conv2D") \cup OfKind(graph, "Dense")

\* A graph the training notebook's ResNet50 returned, from the model cell or a call by hand.
BuiltRuns ==
    (IF TrainedGraph THEN {model.run} ELSE {})
        \cup (IF nb = "training" /\ probe.fn = "ResNet50" /\ "ResNet50" \in probe.defs
                  /\ probe.run.err = ""
               THEN {probe.run} ELSE {})

FiftyWeightedLayers(r) ==
    LET g     == r.graph
        main  == MainPath(r)
        convs == OfKind(g, "Conv2D")
        cb    == {i \in 1..Len(r.calls) : r.calls[i].fn = "convolutional_block"}
        Base(i) == conv_name_base(r.calls[i].stage, r.calls[i].block)
        BlockConvs(i) == Named(g, Base(i) \o "2a") \cup Named(g, Base(i) \o "2b")
                            \cup Named(g, Base(i) \o "2c")
    IN  /\ Chained(r)
        /\ g[r.inp].in = <<>>
        /\ Cardinality(Weighted(g) \cap main) = 50
        /\ Cardinality(Named(g, "conv1")) = 1
        /\ Named(g, "conv1") \subseteq convs \cap main
        /\ Len(r.calls) = 16
        /\ \A i \in 1..Len(r.calls) :
              /\ Cardinality(BlockConvs(i)) = 3
              /\ BlockConvs(i) \subseteq convs \cap main
        /\ Cardinality(UNION {BlockConvs(i) : i \in 1..Len(r.calls)}) = 48
        /\ OfKind(g, "Dense") = {r.ret}
        /\ Cardinality(cb) = 4
        /\ Cardinality(convs \ main) = 4
        /\ convs \ main = UNION {Named(g, Base(i) \o "1") : i \in cb}
        /\ \A i \in cb : \E n \in Named(g, Base(i) \o "1") : g[n].in = <<r.calls[i].x>>
        /\ Cardinality(convs) = 53

C11_FiftyWeightedLayers == \A r \in BuiltRuns : FiftyWeightedLayers(r)

C11_Witness ==
    /\ TrainedGraph
    /\ Chained(model.run)
    /\ Cardinality(Weighted(model.run.graph) \cap MainPath(model.run)) = 50
    /\ Cardinality(OfKind(model.run.graph, "Conv2D")) = 53

(***************************************************************************)
(* C12.  No two block calls written in the training notebook's ResNet50    *)
(* pass the same (stage, block) pair, and in a graph that ResNet50 built   *)
(* no two layers carry the same explicitly assigned name.  The assigned    *)
(* names are exactly 'res'/'bn' + stage + block + '_branch' + '2a', '2b',  *)
(* '2c' for the 16 calls, + '1' for the 4 convolutional_block calls, and   *)
(* 'conv1', 'bn_conv1' and 'fc' + classes: 107 names on 107 layers.        *)
(***************************************************************************)
\* The names a block call assigns to its layers.
BlockNames(c) ==
    LET bases == {conv_name_base(c.stage, c.block), bn_name_base(c.stage, c.block)}
        sufs  == {"2a", "2b", "2c"} \cup (IF c.fn = "convolutional_block" THEN {"1"} ELSE {})
    IN  {b \o suf : b \in bases, suf \in sufs}

\* The layers of a graph that were given a name.
NamedLayers(graph) == {n \in 1..Len(graph) : graph[n].layer.name # ""}

DistinctLayerNames(r) ==
    LET g == r.graph
        generated == UNION {BlockNames(r.calls[i]) : i \in 1..Len(r.calls)}
                        \cup {"conv1", "bn_conv1", "fc" \o ToString(g[r.ret].layer.units)}
    IN  /\ \A m, n \in NamedLayers(g) : m # n => g[m].layer.name # g[n].layer.name
        /\ {g[n].layer.name : n \in NamedLayers(g)} = generated
        /\ Cardinality(generated) = 107
        /\ Cardinality(NamedLayers(g)) = 107
        /\ \A i, j \in 1..Len(r.calls) :
              i # j => BlockNames(r.calls[i]) \cap BlockNames(r.calls[j]) = {}

C12_DistinctLayerNames ==
    /\ (nb = "training" /\ ResNet50Defined) =>
          LET calls == BlockCalls(ResNet50Of(nb))
          IN  \A i, j \in 1..Len(calls) :
                 i # j => <<calls[i].stage, calls[i].block>> # <<calls[j].stage, calls[j].block>>
    /\ \A r \in BuiltRuns : DistinctLayerNames(r)

C12_Witness ==
    /\ TrainedGraph
    /\ Cardinality(NamedLayers(model.run.graph)) = 107
    /\ Named(model.run.graph, "res3c_branch2b") # {}
    /\ Named(model.run.graph, "bn5a_branch1") # {}
    /\ Named(model.run.graph, "fc10") = {model.run.ret}

(***************************************************************************)
(* C13, as stated: for either backend data format, once the training       *)
(* notebook's data-formatting cell has run without an exception, the       *)
(* samples of x_train and x_test have the shape (28,28,1) that the model   *)
(* cell passes to ResNet50, and the name input_shape is bound.             *)
(***************************************************************************)
\* The data-formatting cell has run to its end.
DataFormatted == nb = "training" /\ raised[2] = ""

C13_DataMatchesInputShape ==
    DataFormatted =>
        /\ x_train = <<28, 28, 1>>
        /\ "input_shape" \in Bound
        /\ input_shape = <<28, 28, 1>>
        /\ model.bound => ModelInputShape(model) = x_train

(***************************************************************************)
(* C14, as stated: once the cells of the overview notebook have run in     *)
(* document order, every function name its ResNet50 calls is bound in the  *)
(* kernel, identity_block (called 12 times) among them, and a call of      *)
(* ResNet50 made then does not end in a NameError.                         *)
(***************************************************************************)
\* The function names called in a body.
CalledNames(body) == {c.fn : c \in {body[i] : i \in {j \in 1..Len(body) : IsCall(body[j])}}}

\* The overview notebook was run through in document order.
OverviewRunThrough == nb = "overview" /\ manual = 0 /\ pc > NCells(nb)

C14_CalledNamesBound ==
    /\ OverviewRunThrough =>
          LET calls == BlockCalls(overview_ResNet50(6))
          IN  /\ Cardinality({i \in 1..Len(calls) : calls[i].fn = "identity_block"}) = 12
              /\ "identity_block" \in defined
              /\ CalledNames(overview_ResNet50(6)) \subseteq defined
    /\ (nb = "overview" /\ probe.fn = "ResNet50" /\ AllCellsRun(probe.defs)) =>
          probe.run.err # "NameError"

====
